---- MODULE Spec2Model ----
(***************************************************************************)
(* The SPIR-V binary parser of rspirv (src/rspirv/binary/parser.rs):       *)
(* Parser::parse drives a Consumer over a word buffer.  One action per     *)
(* step of parse: the four consumer callbacks, parse_header, and the three *)
(* parts of parse_inst (reading the first word, one iteration of the       *)
(* operand walk of parse_operands, the check that closes the window).      *)
(*                                                                         *)
(* The word cursor (decoder::Decoder), the operand decoder                 *)
(* (parse_operand.rs) and the grammar table are not part of the sources    *)
(* at hand; they are modelled from the specification document, at word     *)
(* granularity.                                                            *)
(***************************************************************************)
EXTENDS Integers, Sequences, FiniteSets, TLC

(* ------------------------------------------------------------------ *)
(* Program constants                                                    *)
(* ------------------------------------------------------------------ *)
HEADER_NUM_WORDS == 5
MAGIC_NUMBER == 119734787        \* 0x07230203

\* Option<T>: None is the empty sequence, Some(v) the one-element sequence.
None == << >>
Some(v) == << v >>

(* ------------------------------------------------------------------ *)
(* Bounds of the model                                                  *)
(* ------------------------------------------------------------------ *)
\* Largest number of words that follow the header in a buffer.
MaxBody == 4

(* ------------------------------------------------------------------ *)
(* Words                                                                *)
(* ------------------------------------------------------------------ *)
\* u32::swap_bytes
SwapBytes(w) ==
    LET b0 == w % 256
        b1 == (w \div 256) % 256
        b2 == (w \div 65536) % 256
        b3 == (w \div 16777216) % 256
    IN  b0 * 16777216 + b1 * 65536 + b2 * 256 + b3

\* (word >> 16) as u16, (word & 0xffff) as u16
split_into_word_count_and_opcode(word) ==
    [wc |-> (word \div 65536) % 65536, opcode |-> word % 65536]

\* The first word of a record: word count in the upper 16 bits, opcode below.
FirstWord(wc, opcode) == wc * 65536 + opcode

(* ------------------------------------------------------------------ *)
(* Parser State (the error type of parse) and consumer Action           *)
(* ------------------------------------------------------------------ *)
\* A State value: its variant and the variant's payload.
St(variant, payload) == [state |-> variant, payload |-> payload]

Ok(v) == [ok |-> TRUE, val |-> v]
Err(e) == [ok |-> FALSE, val |-> e]

Causes == {"e1", "e2"}

\* enum Action { Continue, Stop, Error(cause) }
Directives ==
    {[action |-> "Continue", cause |-> ""], [action |-> "Stop", cause |-> ""]}
    \cup {[action |-> "Error", cause |-> c] : c \in Causes}

(* ------------------------------------------------------------------ *)
(* State                                                                *)
(* ------------------------------------------------------------------ *)
VARIABLES
    binary,      \* the buffer handed to parse, as a sequence of words
    decoder,     \* Parser.decoder: [offset, limit]; limit is an Option
    inst_index,  \* Parser.inst_index
    pc,          \* the position of parse
    header,      \* the header parse_header returned, until it is consumed
    frame,       \* the locals of parse_inst and parse_operands
    calls,       \* the consumer callbacks made so far, with what they returned
    returned     \* what parse returned: None while it runs

vars == <<binary, decoder, inst_index, pc, header, frame, calls, returned>>

(* ------------------------------------------------------------------ *)
(* Word cursor (decoder::Decoder)                                       *)
(* ------------------------------------------------------------------ *)
DecodeError(variant, payload) == [error |-> variant, payload |-> payload]

\* Decoder::new
NewDecoder == [offset |-> 0, limit |-> None]

has_limit(d) == d.limit # None
limit_reached(d) == d.limit = Some(0)
set_limit(d, n) == [d EXCEPT !.limit = Some(n)]
clear_limit(d) == [d EXCEPT !.limit = None]

\* Decoder::word.  Inside an exhausted window the read fails with
\* LimitReached; past the end of the buffer it fails with StreamExpected.
\* A read inside a window counts against the window before the buffer is
\* looked at, so a read that fails at the end of the buffer has used up one
\* word of the window.
DecoderWord(d) ==
    IF limit_reached(d)
    THEN [ok |-> FALSE, val |-> DecodeError("LimitReached", <<d.offset>>), d |-> d]
    ELSE IF d.offset >= Len(binary)
    THEN [ok |-> FALSE,
          val |-> DecodeError("StreamExpected", <<d.offset>>),
          d |-> IF has_limit(d)
                THEN [d EXCEPT !.limit = Some(d.limit[1] - 1)]
                ELSE d]
    ELSE [ok |-> TRUE,
          val |-> binary[d.offset + 1],
          d |-> [offset |-> d.offset + 1,
                 limit |-> IF has_limit(d) THEN Some(d.limit[1] - 1) ELSE None]]

\* Decoder::words(n): n reads of a word; the n words, or the failure of the
\* first read that fails, with the cursor where the reads before it left it.
DecoderWords(d, n) ==
    LET left == Len(binary) - d.offset
        room == IF has_limit(d) THEN d.limit[1] ELSE n
        k == IF n <= left /\ n <= room THEN n
             ELSE IF left <= room THEN left ELSE room
        after == [offset |-> d.offset + k,
                  limit |-> IF has_limit(d) THEN Some(d.limit[1] - k) ELSE None]
    IN  IF k = n
        THEN [ok |-> TRUE,
              val |-> SubSeq(binary, d.offset + 1, d.offset + n),
              d |-> after]
        ELSE DecoderWord(after)

(* ------------------------------------------------------------------ *)
(* Grammar table (grammar::InstructionTable), a part of the SPIR-V one  *)
(* ------------------------------------------------------------------ *)
\* The table is data the parser is handed.  Next to entries of the SPIR-V
\* table it holds three entries of shapes that table lacks and the parser
\* has to cope with all the same: an enumerant before further exactly-one
\* operands at the head of a record (OpEnumThenIds), and an exactly-one
\* operand after a zero-or-one (OpOptionalThenOne) and after a zero-or-more
\* one (OpVariadicThenOne).  Their opcodes are values SPIR-V does not assign.
LOperand(kind, quantifier) == [kind |-> kind, quantifier |-> quantifier]

OpNop == 0
OpUndef == 1
OpCapability == 17
OpTypeStruct == 30
OpTypePointer == 32
OpStore == 62
OpDecorate == 71
OpGroupMemberDecorate == 75
OpEnumThenIds == 60001
OpOptionalThenOne == 60002
OpVariadicThenOne == 60003

Opcodes ==
    {OpNop, OpUndef, OpCapability, OpTypeStruct, OpTypePointer, OpStore,
     OpDecorate, OpGroupMemberDecorate, OpEnumThenIds, OpOptionalThenOne,
     OpVariadicThenOne}

\* grammar.operands of each opcode of the table
GrammarOperands(opcode) ==
    CASE opcode = OpNop -> << >>
      [] opcode = OpUndef ->
            <<LOperand("IdResultType", "One"), LOperand("IdResult", "One")>>
      [] opcode = OpCapability -> <<LOperand("Capability", "One")>>
      [] opcode = OpTypeStruct ->
            <<LOperand("IdResult", "One"), LOperand("IdRef", "ZeroOrMore")>>
      [] opcode = OpTypePointer ->
            <<LOperand("IdResult", "One"), LOperand("StorageClass", "One"),
              LOperand("IdRef", "One")>>
      [] opcode = OpStore ->
            <<LOperand("IdRef", "One"), LOperand("IdRef", "One"),
              LOperand("MemoryAccess", "ZeroOrOne")>>
      [] opcode = OpDecorate ->
            <<LOperand("IdRef", "One"), LOperand("Decoration", "One")>>
      [] opcode = OpGroupMemberDecorate ->
            <<LOperand("IdRef", "One"),
              LOperand("PairIdRefLiteralInteger", "ZeroOrMore")>>
      [] opcode = OpEnumThenIds ->
            <<LOperand("Capability", "One"), LOperand("IdRef", "One"),
              LOperand("IdRef", "One")>>
      [] opcode = OpOptionalThenOne ->
            <<LOperand("IdRef", "ZeroOrOne"), LOperand("IdRef", "One")>>
      [] opcode = OpVariadicThenOne ->
            <<LOperand("IdRef", "ZeroOrMore"), LOperand("IdRef", "One")>>

\* GInstTable::lookup_opcode
lookup_opcode(opcode) ==
    IF opcode \in Opcodes
    THEN Some([opcode |-> opcode, operands |-> GrammarOperands(opcode)])
    ELSE None

(* ------------------------------------------------------------------ *)
(* Operand decoder (Parser::parse_operand)                              *)
(* ------------------------------------------------------------------ *)
COperand(kind, val) == [kind |-> kind, val |-> val]

\* The values of the value enum Capability (Matrix = 0 .. PipeStorage = 60).
CapabilityLast == 60
\* The bits of the bit enum MemoryAccess: Volatile 1, Aligned 2, Nontemporal 4.
MemoryAccessAll == 7
MemoryAccessAligned == 2
\* The values of the value enum Decoration (RelaxedPrecision = 0 ..
\* MaxByteOffset = 45) and those of them that mandate one literal integer:
\* SpecId, ArrayStride, MatrixStride, Stream .. XfbStride,
\* InputAttachmentIndex, Alignment, MaxByteOffset.  The enumerants with a
\* parameter of another kind (BuiltIn, FuncParamAttr, FPRoundingMode,
\* FPFastMathMode, LinkageAttributes) are decoded here without it.
DecorationLast == 45
\* The values of the value enum StorageClass (UniformConstant = 0 ..
\* Image = 11).
StorageClassLast == 11
DecorationWithLiteral == {1, 6, 7} \cup (29..37) \cup {43, 44, 45}

HasBit(val, bit) == (val \div bit) % 2 = 1

\* One word tagged with `kind`.
ParseWordAs(kind, d) ==
    LET r == DecoderWord(d)
    IN  IF r.ok
        THEN [ok |-> TRUE, val |-> <<COperand(kind, r.val)>>, d |-> r.d]
        ELSE r

\* One word that has to be an enumerant of `kind`: no unknown value (value
\* enum, known values 0..last) or no unknown bit (bit enum, known bits `last`).
ParseEnumAs(kind, last, d) ==
    LET r == DecoderWord(d)
    IN  IF ~r.ok
        THEN r
        ELSE IF r.val > last
        THEN [ok |-> FALSE,
              val |-> DecodeError(kind \o "Unknown", <<d.offset, r.val>>),
              d |-> r.d]
        ELSE [ok |-> TRUE, val |-> <<COperand(kind, r.val)>>, d |-> r.d]

\* `first` followed by what `second` decodes from where `first` stopped.
Then(first, kind2) ==
    IF ~first.ok
    THEN first
    ELSE LET r == ParseWordAs(kind2, first.d)
         IN  IF ~r.ok THEN r ELSE [r EXCEPT !.val = first.val \o @]

\* Parser::parse_operand(kind): the concrete operands of one logical operand.
parse_operand(kind, d) ==
    CASE kind = "IdRef" -> ParseWordAs("IdRef", d)
      [] kind = "LiteralInteger" -> ParseWordAs("LiteralInt32", d)
      [] kind = "Capability" ->
            ParseEnumAs("Capability", CapabilityLast, d)
      [] kind = "MemoryAccess" ->
            LET r == ParseEnumAs("MemoryAccess", MemoryAccessAll, d)
            IN  IF r.ok /\ HasBit(r.val[1].val, MemoryAccessAligned)
                THEN Then(r, "LiteralInt32")
                ELSE r
      [] kind = "StorageClass" ->
            ParseEnumAs("StorageClass", StorageClassLast, d)
      [] kind = "Decoration" ->
            LET r == ParseEnumAs("Decoration", DecorationLast, d)
            IN  IF r.ok /\ r.val[1].val \in DecorationWithLiteral
                THEN Then(r, "LiteralInt32")
                ELSE r
      [] kind = "PairIdRefLiteralInteger" ->
            Then(ParseWordAs("IdRef", d), "LiteralInt32")

(* ------------------------------------------------------------------ *)
(* Parser                                                               *)
(* ------------------------------------------------------------------ *)
\* mr::ModuleHeader::new
ModuleHeader(words) ==
    [magic_number |-> words[1], version |-> words[2], generator |-> words[3],
     bound |-> words[4], reserved_word |-> words[5]]

\* mr::Instruction::new
Instruction(grammar, rtype, rid, coperands) ==
    [opcode |-> grammar.opcode, result_type |-> rtype, result_id |-> rid,
     operands |-> coperands]

\* No instruction is being parsed.
NoFrame ==
    [grammar |-> None, wc |-> 0, start |-> 0, loperand_index |-> 0,
     rtype |-> None, rid |-> None, coperands |-> << >>, result |-> None]

\* One callback as the consumer saw it: its argument, the Action it gave
\* back, and where the cursor stood (for an instruction, also where its
\* record starts and the word count the record declares).
Call(cb, arg, ret) ==
    [cb |-> cb, arg |-> arg, ret |-> ret, offset |-> decoder.offset,
     limit |-> decoder.limit, start |-> frame.start, wc |-> frame.wc]

\* Honor with Stop taken for Continue.
Honor_StopIgnored(d) ==
    CASE d.action = "Continue" -> None
      [] d.action = "Stop" -> None
      [] d.action = "Error" -> Some(St("ConsumerError", <<d.cause>>))

\* Honor with the consumer's cause replaced by a fixed one.
Honor_CauseLost(d) ==
    CASE d.action = "Continue" -> None
      [] d.action = "Stop" -> Some(St("ConsumerStopRequested", << >>))
      [] d.action = "Error" -> Some(St("ConsumerError", <<"e1">>))

\* The match on the Action a callback returned: None to go on, or the
\* State parse returns.
Honor(d) ==
    CASE d.action = "Continue" -> None
      [] d.action = "Stop" -> Some(St("ConsumerStopRequested", << >>))
      [] d.action = "Error" -> Some(St("ConsumerError", <<d.cause>>))

\* parse_header with the byte-swapped magic number not told apart.
parse_header_NoEndianness(d) ==
    LET r == DecoderWords(d, HEADER_NUM_WORDS)
    IN  IF r.ok
        THEN IF r.val[1] # MAGIC_NUMBER
             THEN [res |-> Err(St("HeaderIncorrect", << >>)), d |-> r.d]
             ELSE [res |-> Ok(ModuleHeader(r.val)), d |-> r.d]
        ELSE [res |-> Err(St("HeaderIncomplete", <<r.val>>)), d |-> r.d]

\* parse_header with the magic number looked at before the five words are had.
parse_header_MagicFirst(d) ==
    LET r == DecoderWords(d, HEADER_NUM_WORDS)
        first == DecoderWord(d)
    IN  IF first.ok /\ first.val # MAGIC_NUMBER
        THEN IF first.val = SwapBytes(MAGIC_NUMBER)
             THEN [res |-> Err(St("EndiannessUnsupported", << >>)), d |-> first.d]
             ELSE [res |-> Err(St("HeaderIncorrect", << >>)), d |-> first.d]
        ELSE IF r.ok
        THEN [res |-> Ok(ModuleHeader(r.val)), d |-> r.d]
        ELSE [res |-> Err(St("HeaderIncomplete", <<r.val>>)), d |-> r.d]

\* parse_header with the generator and the bound handed over in each
\* other's place.
parse_header_FieldsSwapped(d) ==
    LET r == DecoderWords(d, HEADER_NUM_WORDS)
    IN  IF r.ok
        THEN IF r.val[1] # MAGIC_NUMBER
             THEN IF r.val[1] = SwapBytes(MAGIC_NUMBER)
                  THEN [res |-> Err(St("EndiannessUnsupported", << >>)), d |-> r.d]
                  ELSE [res |-> Err(St("HeaderIncorrect", << >>)), d |-> r.d]
             ELSE [res |-> Ok(ModuleHeader(<<r.val[1], r.val[2], r.val[4],
                                             r.val[3], r.val[5]>>)),
                   d |-> r.d]
        ELSE [res |-> Err(St("HeaderIncomplete", <<r.val>>)), d |-> r.d]

\* Parser::parse_header
parse_header(d) ==
    LET r == DecoderWords(d, HEADER_NUM_WORDS)
    IN  IF r.ok
        THEN IF r.val[1] # MAGIC_NUMBER
             THEN IF r.val[1] = SwapBytes(MAGIC_NUMBER)
                  THEN [res |-> Err(St("EndiannessUnsupported", << >>)), d |-> r.d]
                  ELSE [res |-> Err(St("HeaderIncorrect", << >>)), d |-> r.d]
             ELSE [res |-> Ok(ModuleHeader(r.val)), d |-> r.d]
        ELSE [res |-> Err(St("HeaderIncomplete", <<r.val>>)), d |-> r.d]

\* return Err(state) from parse
Return(state) ==
    /\ returned' = Some(Err(state))
    /\ pc' = "done"

\* parse, lines 217-221: consumer.initialize()
Initialize ==
    /\ pc = "initialize"
    /\ \E d \in Directives :
          /\ calls' = Append(calls, Call("initialize", << >>, d))
          /\ IF Honor(d) = None
             THEN pc' = "parse_header" /\ UNCHANGED returned
             ELSE Return(Honor(d)[1])
    /\ UNCHANGED <<binary, decoder, inst_index, header, frame>>

\* parse, line 222: try!(self.parse_header())
ParseHeader ==
    /\ pc = "parse_header"
    /\ LET r == parse_header(decoder)
       IN  /\ decoder' = r.d
           /\ IF r.res.ok
              THEN /\ header' = Some(r.res.val)
                   /\ pc' = "consume_header"
                   /\ UNCHANGED returned
              ELSE /\ Return(r.res.val)
                   /\ UNCHANGED header
    /\ UNCHANGED <<binary, inst_index, frame, calls>>

\* parse, lines 223-227: consumer.consume_header(header)
ConsumeHeader ==
    /\ pc = "consume_header"
    /\ \E d \in Directives :
          /\ calls' = Append(calls, Call("consume_header", header[1], d))
          /\ IF Honor(d) = None
             THEN pc' = "parse_inst" /\ UNCHANGED returned
             ELSE Return(Honor(d)[1])
    /\ header' = None
    /\ UNCHANGED <<binary, decoder, inst_index, frame>>

\* parse_inst_head with a zero word count taken for the end of the stream.
parse_inst_head_ZeroEnds(d, index) ==
    LET r == DecoderWord(d)
        s == split_into_word_count_and_opcode(r.val)
        g == lookup_opcode(s.opcode)
    IN  IF ~r.ok \/ s.wc = 0
        THEN [res |-> Some(Err(St("Complete", << >>))), d |-> r.d, frame |-> NoFrame]
        ELSE IF g # None
        THEN [res |-> None,
              d |-> set_limit(r.d, s.wc - 1),
              frame |-> [NoFrame EXCEPT !.grammar = g, !.wc = s.wc,
                                        !.start = d.offset]]
        ELSE [res |-> Some(Err(St("OpcodeUnknown",
                                  <<r.d.offset - 1, index, s.opcode>>))),
              d |-> r.d, frame |-> NoFrame]

\* parse_inst_head with the window opened for word_count words.
parse_inst_head_WindowTooWide(d, index) ==
    LET r == DecoderWord(d)
        s == split_into_word_count_and_opcode(r.val)
        g == lookup_opcode(s.opcode)
    IN  IF ~r.ok
        THEN [res |-> Some(Err(St("Complete", << >>))), d |-> r.d, frame |-> NoFrame]
        ELSE IF s.wc = 0
        THEN [res |-> Some(Err(St("WordCountZero", <<r.d.offset - 1, index>>))),
              d |-> r.d, frame |-> NoFrame]
        ELSE IF g # None
        THEN [res |-> None,
              d |-> set_limit(r.d, s.wc),
              frame |-> [NoFrame EXCEPT !.grammar = g, !.wc = s.wc,
                                        !.start = d.offset]]
        ELSE [res |-> Some(Err(St("OpcodeUnknown",
                                  <<r.d.offset - 1, index, s.opcode>>))),
              d |-> r.d, frame |-> NoFrame]

\* parse_inst_head with WordCountZero carrying the offset after the word.
parse_inst_head_OffsetAfter(d, index) ==
    LET r == DecoderWord(d)
        s == split_into_word_count_and_opcode(r.val)
        g == lookup_opcode(s.opcode)
    IN  IF ~r.ok
        THEN [res |-> Some(Err(St("Complete", << >>))), d |-> r.d, frame |-> NoFrame]
        ELSE IF s.wc = 0
        THEN [res |-> Some(Err(St("WordCountZero", <<r.d.offset, index>>))),
              d |-> r.d, frame |-> NoFrame]
        ELSE IF g # None
        THEN [res |-> None,
              d |-> set_limit(r.d, s.wc - 1),
              frame |-> [NoFrame EXCEPT !.grammar = g, !.wc = s.wc,
                                        !.start = d.offset]]
        ELSE [res |-> Some(Err(St("OpcodeUnknown",
                                  <<r.d.offset - 1, index, s.opcode>>))),
              d |-> r.d, frame |-> NoFrame]

\* parse_inst_head with OpcodeUnknown carrying the whole first word.
parse_inst_head_OpcodeWord(d, index) ==
    LET r == DecoderWord(d)
        s == split_into_word_count_and_opcode(r.val)
        g == lookup_opcode(s.opcode)
    IN  IF ~r.ok
        THEN [res |-> Some(Err(St("Complete", << >>))), d |-> r.d, frame |-> NoFrame]
        ELSE IF s.wc = 0
        THEN [res |-> Some(Err(St("WordCountZero", <<r.d.offset - 1, index>>))),
              d |-> r.d, frame |-> NoFrame]
        ELSE IF g # None
        THEN [res |-> None,
              d |-> set_limit(r.d, s.wc - 1),
              frame |-> [NoFrame EXCEPT !.grammar = g, !.wc = s.wc,
                                        !.start = d.offset]]
        ELSE [res |-> Some(Err(St("OpcodeUnknown",
                                  <<r.d.offset - 1, index, r.val>>))),
              d |-> r.d, frame |-> NoFrame]

\* Parser::parse_inst, lines 281-288 and 296-303: the first word of a
\* record.  res is None when a window was opened and the operands follow.
parse_inst_head(d, index) ==
    LET r == DecoderWord(d)
        s == split_into_word_count_and_opcode(r.val)
        g == lookup_opcode(s.opcode)
    IN  IF ~r.ok
        THEN [res |-> Some(Err(St("Complete", << >>))), d |-> r.d, frame |-> NoFrame]
        ELSE IF s.wc = 0
        THEN [res |-> Some(Err(St("WordCountZero", <<r.d.offset - 1, index>>))),
              d |-> r.d, frame |-> NoFrame]
        ELSE IF g # None
        THEN [res |-> None,
              d |-> set_limit(r.d, s.wc - 1),
              frame |-> [NoFrame EXCEPT !.grammar = g, !.wc = s.wc,
                                        !.start = d.offset]]
        ELSE [res |-> Some(Err(St("OpcodeUnknown",
                                  <<r.d.offset - 1, index, s.opcode>>))),
              d |-> r.d, frame |-> NoFrame]

\* parse_operands_step where an empty window ends the walk whatever the
\* quantifier of the pending operand.
parse_operands_step_NoExpected(d, f, index) ==
    LET grammar == f.grammar[1]
        n == Len(grammar.operands)
        loperand == grammar.operands[f.loperand_index + 1]
        advanced == IF loperand.quantifier = "ZeroOrMore"
                    THEN f.loperand_index
                    ELSE f.loperand_index + 1
        done == Some(Ok(Instruction(grammar, f.rtype, f.rid, f.coperands)))
        failed(e) == Some(Err(St("OperandError", <<e>>)))
    IN  IF f.loperand_index >= n
        THEN [d |-> d, frame |-> [f EXCEPT !.result = done]]
        ELSE IF ~limit_reached(d)
        THEN IF loperand.kind \in {"IdResultType", "IdResult"}
             THEN LET r == DecoderWord(d)
                  IN  IF ~r.ok
                      THEN [d |-> r.d, frame |-> [f EXCEPT !.result = failed(r.val)]]
                      ELSE IF loperand.kind = "IdResultType"
                      THEN [d |-> r.d,
                            frame |-> [f EXCEPT !.rtype = Some(r.val),
                                                !.loperand_index = advanced]]
                      ELSE [d |-> r.d,
                            frame |-> [f EXCEPT !.rid = Some(r.val),
                                                !.loperand_index = advanced]]
             ELSE LET r == parse_operand(loperand.kind, d)
                  IN  IF ~r.ok
                      THEN [d |-> r.d, frame |-> [f EXCEPT !.result = failed(r.val)]]
                      ELSE [d |-> r.d,
                            frame |-> [f EXCEPT !.coperands = @ \o r.val,
                                                !.loperand_index = advanced]]
        ELSE [d |-> d, frame |-> [f EXCEPT !.result = done]]

\* parse_operands_step where a zero-or-more operand is decoded once.
parse_operands_step_VariadicOnce(d, f, index) ==
    LET grammar == f.grammar[1]
        n == Len(grammar.operands)
        loperand == grammar.operands[f.loperand_index + 1]
        advanced == f.loperand_index + 1
        done == Some(Ok(Instruction(grammar, f.rtype, f.rid, f.coperands)))
        failed(e) == Some(Err(St("OperandError", <<e>>)))
    IN  IF f.loperand_index >= n
        THEN [d |-> d, frame |-> [f EXCEPT !.result = done]]
        ELSE IF ~limit_reached(d)
        THEN IF loperand.kind \in {"IdResultType", "IdResult"}
             THEN LET r == DecoderWord(d)
                  IN  IF ~r.ok
                      THEN [d |-> r.d, frame |-> [f EXCEPT !.result = failed(r.val)]]
                      ELSE IF loperand.kind = "IdResultType"
                      THEN [d |-> r.d,
                            frame |-> [f EXCEPT !.rtype = Some(r.val),
                                                !.loperand_index = advanced]]
                      ELSE [d |-> r.d,
                            frame |-> [f EXCEPT !.rid = Some(r.val),
                                                !.loperand_index = advanced]]
             ELSE LET r == parse_operand(loperand.kind, d)
                  IN  IF ~r.ok
                      THEN [d |-> r.d, frame |-> [f EXCEPT !.result = failed(r.val)]]
                      ELSE [d |-> r.d,
                            frame |-> [f EXCEPT !.coperands = @ \o r.val,
                                                !.loperand_index = advanced]]
        ELSE IF loperand.quantifier = "One"
        THEN [d |-> d,
              frame |-> [f EXCEPT !.result =
                  Some(Err(St("OperandExpected", <<d.offset - 1, index>>)))]]
        ELSE [d |-> d, frame |-> [f EXCEPT !.result = done]]

\* parse_operands_step where leaving out an operand is an error when an
\* exactly-one operand comes after it in the grammar.
parse_operands_step_LaterRequired(d, f, index) ==
    LET grammar == f.grammar[1]
        n == Len(grammar.operands)
        loperand == grammar.operands[f.loperand_index + 1]
        advanced == IF loperand.quantifier = "ZeroOrMore"
                    THEN f.loperand_index
                    ELSE f.loperand_index + 1
        done == Some(Ok(Instruction(grammar, f.rtype, f.rid, f.coperands)))
        failed(e) == Some(Err(St("OperandError", <<e>>)))
    IN  IF f.loperand_index >= n
        THEN [d |-> d, frame |-> [f EXCEPT !.result = done]]
        ELSE IF ~limit_reached(d)
        THEN IF loperand.kind \in {"IdResultType", "IdResult"}
             THEN LET r == DecoderWord(d)
                  IN  IF ~r.ok
                      THEN [d |-> r.d, frame |-> [f EXCEPT !.result = failed(r.val)]]
                      ELSE IF loperand.kind = "IdResultType"
                      THEN [d |-> r.d,
                            frame |-> [f EXCEPT !.rtype = Some(r.val),
                                                !.loperand_index = advanced]]
                      ELSE [d |-> r.d,
                            frame |-> [f EXCEPT !.rid = Some(r.val),
                                                !.loperand_index = advanced]]
             ELSE LET r == parse_operand(loperand.kind, d)
                  IN  IF ~r.ok
                      THEN [d |-> r.d, frame |-> [f EXCEPT !.result = failed(r.val)]]
                      ELSE [d |-> r.d,
                            frame |-> [f EXCEPT !.coperands = @ \o r.val,
                                                !.loperand_index = advanced]]
        ELSE IF \E j \in (f.loperand_index + 1)..n :
                    grammar.operands[j].quantifier = "One"
        THEN [d |-> d,
              frame |-> [f EXCEPT !.result =
                  Some(Err(St("OperandExpected", <<d.offset - 1, index>>)))]]
        ELSE [d |-> d, frame |-> [f EXCEPT !.result = done]]

\* parse_operands_step where a zero-or-more operand is tried again when the
\* window is empty.
parse_operands_step_VariadicSpins(d, f, index) ==
    LET grammar == f.grammar[1]
        n == Len(grammar.operands)
        loperand == grammar.operands[f.loperand_index + 1]
        advanced == IF loperand.quantifier = "ZeroOrMore"
                    THEN f.loperand_index
                    ELSE f.loperand_index + 1
        done == Some(Ok(Instruction(grammar, f.rtype, f.rid, f.coperands)))
        failed(e) == Some(Err(St("OperandError", <<e>>)))
    IN  IF f.loperand_index >= n
        THEN [d |-> d, frame |-> [f EXCEPT !.result = done]]
        ELSE IF ~limit_reached(d)
        THEN IF loperand.kind \in {"IdResultType", "IdResult"}
             THEN LET r == DecoderWord(d)
                  IN  IF ~r.ok
                      THEN [d |-> r.d, frame |-> [f EXCEPT !.result = failed(r.val)]]
                      ELSE IF loperand.kind = "IdResultType"
                      THEN [d |-> r.d,
                            frame |-> [f EXCEPT !.rtype = Some(r.val),
                                                !.loperand_index = advanced]]
                      ELSE [d |-> r.d,
                            frame |-> [f EXCEPT !.rid = Some(r.val),
                                                !.loperand_index = advanced]]
             ELSE LET r == parse_operand(loperand.kind, d)
                  IN  IF ~r.ok
                      THEN [d |-> r.d, frame |-> [f EXCEPT !.result = failed(r.val)]]
                      ELSE [d |-> r.d,
                            frame |-> [f EXCEPT !.coperands = @ \o r.val,
                                                !.loperand_index = advanced]]
        ELSE IF loperand.quantifier = "One"
        THEN [d |-> d,
              frame |-> [f EXCEPT !.result =
                  Some(Err(St("OperandExpected", <<d.offset - 1, index>>)))]]
        ELSE IF loperand.quantifier = "ZeroOrMore"
        THEN [d |-> d, frame |-> f]
        ELSE [d |-> d, frame |-> [f EXCEPT !.result = done]]

\* Parser::parse_operands, lines 312-343: one iteration of the walk over
\* the logical operands, or the return that ends it (f.result is set).
parse_operands_step(d, f, index) ==
    LET grammar == f.grammar[1]
        n == Len(grammar.operands)
        loperand == grammar.operands[f.loperand_index + 1]
        advanced == IF loperand.quantifier = "ZeroOrMore"
                    THEN f.loperand_index
                    ELSE f.loperand_index + 1
        done == Some(Ok(Instruction(grammar, f.rtype, f.rid, f.coperands)))
        failed(e) == Some(Err(St("OperandError", <<e>>)))
    IN  IF f.loperand_index >= n
        THEN [d |-> d, frame |-> [f EXCEPT !.result = done]]
        ELSE IF ~limit_reached(d)
        THEN IF loperand.kind \in {"IdResultType", "IdResult"}
             THEN LET r == DecoderWord(d)
                  IN  IF ~r.ok
                      THEN [d |-> r.d, frame |-> [f EXCEPT !.result = failed(r.val)]]
                      ELSE IF loperand.kind = "IdResultType"
                      THEN [d |-> r.d,
                            frame |-> [f EXCEPT !.rtype = Some(r.val),
                                                !.loperand_index = advanced]]
                      ELSE [d |-> r.d,
                            frame |-> [f EXCEPT !.rid = Some(r.val),
                                                !.loperand_index = advanced]]
             ELSE LET r == parse_operand(loperand.kind, d)
                  IN  IF ~r.ok
                      THEN [d |-> r.d, frame |-> [f EXCEPT !.result = failed(r.val)]]
                      ELSE [d |-> r.d,
                            frame |-> [f EXCEPT !.coperands = @ \o r.val,
                                                !.loperand_index = advanced]]
        ELSE IF loperand.quantifier = "One"
        THEN [d |-> d,
              frame |-> [f EXCEPT !.result =
                  Some(Err(St("OperandExpected", <<d.offset - 1, index>>)))]]
        ELSE [d |-> d, frame |-> [f EXCEPT !.result = done]]

\* parse_inst_end without the check that the window was drained.
parse_inst_end_NoExceeded(d, f, index) ==
    [res |-> f.result[1], d |-> clear_limit(d)]

\* parse_inst_end that skips the words left in the window.
parse_inst_end_SkipsRest(d, f, index) ==
    IF ~limit_reached(d)
    THEN [res |-> f.result[1],
          d |-> [offset |-> d.offset + d.limit[1], limit |-> None]]
    ELSE [res |-> f.result[1], d |-> clear_limit(d)]

\* parse_inst_end that leaves the drained window on the cursor.
parse_inst_end_KeepsWindow(d, f, index) ==
    IF ~limit_reached(d)
    THEN [res |-> Err(St("OperandExceeded", <<d.offset, index>>)), d |-> d]
    ELSE [res |-> f.result[1], d |-> d]

\* Parser::parse_inst, lines 290-295: what parse_inst returns once
\* parse_operands has returned f.result.
parse_inst_end(d, f, index) ==
    IF ~limit_reached(d)
    THEN [res |-> Err(St("OperandExceeded", <<d.offset, index>>)), d |-> d]
    ELSE [res |-> f.result[1], d |-> clear_limit(d)]

\* ParseInst where parse hands Complete on to its caller like any other error.
ParseInst_CompleteReturned ==
    /\ pc = "parse_inst"
    /\ inst_index' = inst_index + 1
    /\ LET h == parse_inst_head(decoder, inst_index')
       IN  /\ decoder' = h.d
           /\ frame' = h.frame
           /\ IF h.res = None
              THEN pc' = "parse_operands" /\ UNCHANGED returned
              ELSE Return(h.res[1].val)
    /\ UNCHANGED <<binary, header, calls>>

\* ParseInst where parse_inst counts the record after it has read it.
ParseInst_CountsAfter ==
    /\ pc = "parse_inst"
    /\ inst_index' = inst_index + 1
    /\ LET h == parse_inst_head(decoder, inst_index)
       IN  /\ decoder' = h.d
           /\ frame' = h.frame
           /\ IF h.res = None
              THEN pc' = "parse_operands" /\ UNCHANGED returned
              ELSE IF h.res[1].val.state = "Complete"
              THEN pc' = "finalize" /\ UNCHANGED returned
              ELSE Return(h.res[1].val)
    /\ UNCHANGED <<binary, header, calls>>

\* parse, lines 230-231 and 243-244, with parse_inst up to set_limit
ParseInst ==
    /\ pc = "parse_inst"
    /\ inst_index' = inst_index + 1
    /\ LET h == parse_inst_head(decoder, inst_index')
       IN  /\ decoder' = h.d
           /\ frame' = h.frame
           /\ IF h.res = None
              THEN pc' = "parse_operands" /\ UNCHANGED returned
              ELSE IF h.res[1].val.state = "Complete"
              THEN pc' = "finalize" /\ UNCHANGED returned
              ELSE Return(h.res[1].val)
    /\ UNCHANGED <<binary, header, calls>>

\* parse_inst, line 289: self.parse_operands(grammar), an iteration at a time
ParseOperands ==
    /\ pc = "parse_operands"
    /\ LET r == parse_operands_step(decoder, frame, inst_index)
       IN  /\ decoder' = r.d
           /\ frame' = r.frame
           /\ pc' = IF r.frame.result = None
                    THEN "parse_operands"
                    ELSE "parse_inst_end"
    /\ UNCHANGED <<binary, inst_index, header, calls, returned>>

\* parse_inst, lines 290-295, and the match of parse on its result
ParseInstEnd ==
    /\ pc = "parse_inst_end"
    /\ LET r == parse_inst_end(decoder, frame, inst_index)
       IN  /\ decoder' = r.d
           /\ IF r.res.ok
              THEN pc' = "consume_instruction" /\ UNCHANGED returned
              ELSE Return(r.res.val)
    /\ UNCHANGED <<binary, inst_index, header, frame, calls>>

\* parse, lines 233-241: consumer.consume_instruction(inst)
ConsumeInstruction ==
    /\ pc = "consume_instruction"
    /\ \E d \in Directives :
          /\ calls' = Append(calls,
                             Call("consume_instruction", frame.result[1].val, d))
          /\ IF Honor(d) = None
             THEN pc' = "parse_inst" /\ UNCHANGED returned
             ELSE Return(Honor(d)[1])
    /\ frame' = NoFrame
    /\ UNCHANGED <<binary, decoder, inst_index, header>>

\* parse, lines 247-252: consumer.finalize(), then Ok(())
Finalize ==
    /\ pc = "finalize"
    /\ \E d \in Directives :
          /\ calls' = Append(calls, Call("finalize", << >>, d))
          /\ IF Honor(d) = None
             THEN returned' = Some(Ok(<< >>)) /\ pc' = "done"
             ELSE Return(Honor(d)[1])
    /\ UNCHANGED <<binary, decoder, inst_index, header, frame>>

(* ------------------------------------------------------------------ *)
(* Buffers and the specification                                        *)
(* ------------------------------------------------------------------ *)
SeqsUpTo(S, n) == UNION {[1..k -> S] : k \in 0..n}

\* Words of a header: the magic number, its byte swap, two other values.
HeaderWords == {MAGIC_NUMBER, SwapBytes(MAGIC_NUMBER), 0, 65536}

\* Words after the header: first words of records (well-formed, with a zero
\* word count, with an opcode the table lacks) that also serve as operands.
BodyWords ==
    {0,
     FirstWord(1, OpNop),
     FirstWord(1, OpCapability),
     FirstWord(2, OpCapability),
     FirstWord(3, OpCapability),
     FirstWord(3, OpTypeStruct),
     FirstWord(3, OpUndef),
     FirstWord(3, OpStore),
     FirstWord(0, 65535),
     FirstWord(1, 65535)}

GoodHeader == <<MAGIC_NUMBER, 65792, 7, 100, 0>>

Buffers ==
    SeqsUpTo(HeaderWords, HEADER_NUM_WORDS)
    \cup {h \o b : h \in {GoodHeader}, b \in SeqsUpTo(BodyWords, MaxBody)}
    \cup {<<w, 65536, 0, 0, 0>> \o b :
              w \in HeaderWords \ {MAGIC_NUMBER}, b \in SeqsUpTo(BodyWords, 1)}

\* Parser::new, for any buffer
Init ==
    /\ binary \in Buffers
    /\ decoder = NewDecoder
    /\ inst_index = 0
    /\ pc = "initialize"
    /\ header = None
    /\ frame = NoFrame
    /\ calls = << >>
    /\ returned = None

Next ==
    \/ Initialize
    \/ ParseHeader
    \/ ConsumeHeader
    \/ ParseInst
    \/ ParseOperands
    \/ ParseInstEnd
    \/ ConsumeInstruction
    \/ Finalize

Spec == Init /\ [][Next]_vars

\* Parser::new, for a buffer with a good header and a body over `words`
InitOver(words) ==
    /\ binary \in {GoodHeader \o b : b \in SeqsUpTo(words, MaxBody)}
    /\ decoder = NewDecoder
    /\ inst_index = 0
    /\ pc = "initialize"
    /\ header = None
    /\ frame = NoFrame
    /\ calls = << >>
    /\ returned = None

\* Records of opcodes with exactly-one operands only, shorter than, as long
\* as and longer than their operands; 0 and 1 serve as operands (1 is the
\* decoration SpecId, which mandates a literal).
ExactWords ==
    {0, 1,
     FirstWord(1, OpNop),
     FirstWord(1, OpDecorate),
     FirstWord(2, OpDecorate),
     FirstWord(3, OpDecorate),
     FirstWord(4, OpDecorate),
     FirstWord(2, OpStore),
     FirstWord(2, OpUndef)}

InitExact == InitOver(ExactWords)
SpecExact == InitExact /\ [][Next]_vars

\* Records that hold fewer operand words than the exactly-one operands of
\* their grammar need; 0 and 1 serve as operands the decoder accepts (1 is
\* the decoration SpecId, which mandates a literal), 99 as an id and as an
\* enumerant the decoder rejects.
ShortWords ==
    {0, 1, 99,
     FirstWord(1, OpNop),
     FirstWord(2, OpStore),
     FirstWord(2, OpDecorate),
     FirstWord(3, OpDecorate),
     FirstWord(3, OpTypePointer),
     FirstWord(3, OpEnumThenIds)}

InitShort == InitOver(ShortWords)
SpecShort == InitShort /\ [][Next]_vars

\* Records of the opcodes whose last operand is zero-or-more, an id
\* (OpTypeStruct) or a pair (OpGroupMemberDecorate), with one to three
\* operand words; 0 and 1 serve as operands.
VariadicWords ==
    {0, 1,
     FirstWord(2, OpTypeStruct),
     FirstWord(3, OpTypeStruct),
     FirstWord(4, OpTypeStruct),
     FirstWord(2, OpGroupMemberDecorate),
     FirstWord(3, OpGroupMemberDecorate),
     FirstWord(4, OpGroupMemberDecorate)}

InitVariadic == InitOver(VariadicWords)
SpecVariadic == InitVariadic /\ [][Next]_vars

\* Records of the opcodes with an operand that may be left out: OpStore
\* without, with and with more than its memory access, OpTypeStruct without
\* members, and the entries with an exactly-one operand after the one that
\* may be left out, without operands and with some; 0 and 2 (Aligned, which
\* mandates a literal) serve as operands.
OptionalWords ==
    {0, 2,
     FirstWord(3, OpStore),
     FirstWord(4, OpStore),
     FirstWord(5, OpStore),
     FirstWord(2, OpTypeStruct),
     FirstWord(1, OpOptionalThenOne),
     FirstWord(2, OpOptionalThenOne),
     FirstWord(1, OpVariadicThenOne),
     FirstWord(3, OpVariadicThenOne)}

InitOptional == InitOver(OptionalWords)
SpecOptional == InitOptional /\ [][Next]_vars

\* parse runs on one thread and every callback returns: a step that can be
\* taken is taken.
FairSpecVariadic == SpecVariadic /\ WF_vars(Next)

(* ------------------------------------------------------------------ *)
(* What the buffer holds, read off the buffer alone                     *)
(* ------------------------------------------------------------------ *)
WordCountOf(word) == (word \div 65536) % 65536
OpcodeOf(word) == word % 65536

\* The records of the buffer from word position p on, each as long as its
\* first word declares: the list ends at the end of the buffer, at a record
\* with a zero word count or at a record the buffer does not hold in full.
RECURSIVE RecordsFrom(_)
RecordsFrom(p) ==
    IF p >= Len(binary)
    THEN << >>
    ELSE LET wc == WordCountOf(binary[p + 1])
             rec == [start |-> p, wc |-> wc, opcode |-> OpcodeOf(binary[p + 1])]
         IN  IF wc = 0 \/ p + wc > Len(binary)
             THEN <<rec>>
             ELSE <<rec>> \o RecordsFrom(p + wc)

Records == RecordsFrom(HEADER_NUM_WORDS)

\* Every record has a word count above zero and lies within the buffer.
WellFormed(recs) ==
    \A i \in 1..Len(recs) :
        recs[i].wc > 0 /\ recs[i].start + recs[i].wc <= Len(binary)

Indices(cb) == {i \in 1..Len(calls) : calls[i].cb = cb}
Continued(i) == calls[i].ret.action = "Continue"
Delivered == SelectSeq(calls, LAMBDA c : c.cb = "consume_instruction")
HasReturned(state) == returned # None /\ ~returned[1].ok /\ returned[1].val.state = state
ReturnedOk == returned # None /\ returned[1].ok

\* The words an instruction was assembled from, in stream order.
WordsOf(inst) ==
    inst.result_type \o inst.result_id
    \o [k \in 1..Len(inst.operands) |-> inst.operands[k].val]

(* ------------------------------------------------------------------ *)
(* Properties                                                           *)
(* ------------------------------------------------------------------ *)

\* C1: the callbacks come in the order initialize (once, first), at most one
\* consume_header, any number of consume_instruction, at most one finalize;
\* consume_instruction only after consume_header returned Continue; finalize
\* only when every earlier callback returned Continue and the cursor was
\* found exhausted, outside any window, right where the last delivered
\* record (or the header) ends.
C1_CallbackOrder ==
    /\ pc # "initialize" => Len(calls) >= 1
    /\ \A i \in 1..Len(calls) :
          /\ (calls[i].cb = "initialize") = (i = 1)
          /\ calls[i].cb = "consume_header" => i = 2
          /\ calls[i].cb = "consume_instruction" =>
                /\ i >= 3
                /\ calls[2].cb = "consume_header"
                /\ Continued(2)
          /\ calls[i].cb = "finalize" =>
                /\ i = Len(calls)
                /\ i >= 3
                /\ \A j \in 1..(i - 1) : Continued(j)
                /\ calls[i].offset = Len(binary)
                /\ calls[i].limit = None
                /\ calls[i].offset =
                      IF calls[i - 1].cb = "consume_instruction"
                      THEN calls[i - 1].start + calls[i - 1].wc
                      ELSE HEADER_NUM_WORDS

\* finalize was reached after two instructions were delivered
C1_Witness ==
    /\ Len(calls) >= 5
    /\ calls[Len(calls)].cb = "finalize"
    /\ calls[4].cb = "consume_instruction"

\* C2: a callback that returns Stop is the last callback, and parse returns
\* ConsumerStopRequested.
C2_StopAborts ==
    \A i \in 1..Len(calls) :
        calls[i].ret.action = "Stop" =>
            /\ i = Len(calls)
            /\ pc = "done"
            /\ returned = Some(Err(St("ConsumerStopRequested", << >>)))

\* consume_instruction returned Stop for the second instruction
C2_Witness ==
    /\ Len(calls) = 4
    /\ calls[4].cb = "consume_instruction"
    /\ calls[4].ret.action = "Stop"
    /\ Len(binary) > calls[4].offset

\* C3: a callback that returns Error(cause) is the last callback, and parse
\* returns ConsumerError with that cause.
C3_ErrorAborts ==
    \A i \in 1..Len(calls) :
        calls[i].ret.action = "Error" =>
            /\ i = Len(calls)
            /\ pc = "done"
            /\ returned = Some(Err(St("ConsumerError", <<calls[i].ret.cause>>)))

\* finalize returned Error("e2")
C3_Witness ==
    /\ Len(calls) >= 3
    /\ calls[Len(calls)].cb = "finalize"
    /\ calls[Len(calls)].ret = [action |-> "Error", cause |-> "e2"]

\* The consume_instruction calls deliver exactly the records `recs`, one call
\* each and in stream order, each with the words of its record.
DeliveredAre(recs) ==
    /\ Len(Delivered) = Len(recs)
    /\ \A i \in 1..Len(recs) :
          /\ Delivered[i].start = recs[i].start
          /\ Delivered[i].wc = recs[i].wc
          /\ Delivered[i].arg.opcode = recs[i].opcode
          /\ WordsOf(Delivered[i].arg) =
                SubSeq(binary, recs[i].start + 2, recs[i].start + recs[i].wc)

\* C4: parse returns either Ok or one error State.  It returns Ok only when
\* the buffer is a header followed by whole records, the cursor stands at the
\* end of the buffer, every record was delivered by one consume_instruction
\* call, in stream order, and finalize was called last and returned Continue;
\* and a run whose last callback is a finalize that returned Continue
\* returns Ok.
C4_NoPartialSuccess ==
    /\ (pc = "done") = (returned # None)
    /\ pc = "done" =>
          /\ returned[1].ok => returned[1].val = << >>
          /\ ~returned[1].ok => returned[1].val.state # "Complete"
          /\ returned[1].ok =
                (/\ Len(calls) >= 3
                 /\ calls[Len(calls)].cb = "finalize"
                 /\ Continued(Len(calls)))
    /\ ReturnedOk =>
          /\ decoder = [offset |-> Len(binary), limit |-> None]
          /\ WellFormed(Records)
          /\ DeliveredAre(Records)
          /\ \A i \in 1..Len(calls) : Continued(i)

\* parse returned Ok for a buffer of two records, one of them with operands
C4_Witness ==
    /\ ReturnedOk
    /\ Len(Records) = 2
    /\ \E i \in 1..2 : Records[i].wc = 3

\* C5: an instruction is handed to consume_instruction when exactly
\* word_count - 1 words were read after its first word, all of them words of
\* the buffer, and the window is closed.
C5_ExactWordCount ==
    \A i \in Indices("consume_instruction") :
        /\ calls[i].offset - (calls[i].start + 1) = calls[i].wc - 1
        /\ calls[i].offset <= Len(binary)
        /\ Len(WordsOf(calls[i].arg)) = calls[i].wc - 1
        /\ WordCountOf(binary[calls[i].start + 1]) = calls[i].wc

\* an instruction with a result id and a repeated operand was delivered
C5_Witness ==
    \E i \in Indices("consume_instruction") :
        /\ calls[i].wc = 3
        /\ calls[i].arg.opcode = OpTypeStruct
        /\ Len(calls[i].arg.operands) = 1

\* The operand walk of the current record ended on a failure of the decoder.
DecoderFailed ==
    /\ frame.result # None
    /\ ~frame.result[1].ok
    /\ frame.result[1].val.state = "OperandError"

\* C6: once the decoder has failed on an operand of a record, parse returns
\* OperandError with the decoder's cause, however many words the window of
\* the record still holds.
C6_DecoderFailureSurfaces ==
    (pc = "done" /\ DecoderFailed) => returned = Some(Err(frame.result[1].val))

\* C7: for a buffer of at least five words and an initialize that returned
\* Continue, a first word equal to the byte-swapped magic number (0x03022307)
\* gives EndiannessUnsupported and any other first word that is not the magic
\* number gives HeaderIncorrect; initialize stays the only callback.
C7_BadMagic ==
    (/\ Len(binary) >= 5
     /\ binary[1] # 119734787
     /\ Len(calls) >= 1
     /\ Continued(1)) =>
        /\ Len(calls) = 1
        /\ pc \in {"parse_header", "done"}
        /\ pc = "done" =>
              returned = IF binary[1] = 50471687
                         THEN Some(Err(St("EndiannessUnsupported", << >>)))
                         ELSE Some(Err(St("HeaderIncorrect", << >>)))

\* EndiannessUnsupported was returned for a buffer with words after the header
C7_Witness ==
    /\ HasReturned("EndiannessUnsupported")
    /\ Len(binary) > 5
    /\ binary[1] = 50471687
    /\ Len(calls) = 1

\* C8 as stated: a buffer of fewer than five words gives HeaderIncomplete,
\* whatever the consumer does.
C8_ShortBufferAlways ==
    (pc = "done" /\ Len(binary) < 5) =>
        /\ HasReturned("HeaderIncomplete")
        /\ Len(calls) = 1

\* C8: a buffer of fewer than five words, whatever its first word, gives
\* HeaderIncomplete when initialize returned Continue; initialize is the
\* only callback made.
C8_ShortBuffer ==
    Len(binary) < 5 =>
        /\ Len(calls) <= 1
        /\ pc \in {"initialize", "parse_header", "done"}
        /\ pc # "initialize" => Len(calls) = 1 /\ calls[1].cb = "initialize"
        /\ (pc = "done" /\ Continued(1)) => HasReturned("HeaderIncomplete")

\* HeaderIncomplete was returned for four words that start with the
\* byte-swapped magic number
C8_Witness ==
    /\ HasReturned("HeaderIncomplete")
    /\ Len(binary) = 4
    /\ binary[1] = 50471687

\* C9: for a buffer of exactly five words that starts with the magic number
\* and a consumer that only returns Continue, parse makes the calls
\* initialize, consume_header with the five words in order, finalize, and
\* returns Ok.
C9_HeaderOnly ==
    (/\ pc = "done"
     /\ Len(binary) = 5
     /\ binary[1] = 119734787
     /\ \A i \in 1..Len(calls) : Continued(i)) =>
        /\ Len(calls) = 3
        /\ calls[1].cb = "initialize"
        /\ calls[2].cb = "consume_header"
        /\ calls[2].arg = [magic_number |-> binary[1], version |-> binary[2],
                           generator |-> binary[3], bound |-> binary[4],
                           reserved_word |-> binary[5]]
        /\ calls[3].cb = "finalize"
        /\ ReturnedOk

\* Ok was returned for a header whose four other words all differ from one
\* another, the reserved word not being zero
C9_Witness ==
    /\ ReturnedOk
    /\ Len(binary) = 5
    /\ Cardinality({binary[i] : i \in 2..5}) = 4
    /\ binary[5] # 0

\* The parser has read the first word of the record that Records ends with.
ReadLastRecord == inst_index >= Len(Records) /\ Len(Records) >= 1
LastRecord == Records[Len(Records)]

\* C10: when the parser reads a record whose word count is zero, parse
\* returns WordCountZero with the 1-based index of the record and the offset
\* of its first word, whatever its opcode; the records before it are the only
\* ones delivered and finalize is not called.
C10_WordCountZero ==
    (Len(Records) >= 1 /\ LastRecord.wc = 0) =>
        /\ Len(Delivered) < Len(Records)
        /\ Indices("finalize") = {}
        /\ (pc = "done" /\ ReadLastRecord) =>
              /\ returned = Some(Err(St("WordCountZero",
                                        <<LastRecord.start, Len(Records)>>)))
              /\ DeliveredAre(SubSeq(Records, 1, Len(Records) - 1))

\* WordCountZero was returned for the second record, whose opcode the table
\* lacks, with words after it in the buffer
C10_Witness ==
    /\ HasReturned("WordCountZero")
    /\ returned[1].val.payload[2] = 2
    /\ LastRecord.opcode \notin Opcodes
    /\ LastRecord.start + 1 < Len(binary)


\* The parser has read the first word of record number inst_index of Records.
AtRecord == inst_index \in 1..Len(Records)
Current == Records[inst_index]

\* C11: a record with a word count above zero whose opcode the grammar table
\* lacks makes parse return OpcodeUnknown with the offset of the record's
\* first word, the 1-based index of the record and the opcode; no window is
\* opened, the record is not delivered and the records before it are.
C11_OpcodeUnknown ==
    (AtRecord /\ Current.wc > 0 /\ Current.opcode \notin Opcodes) =>
        /\ pc = "done"
        /\ returned = Some(Err(St("OpcodeUnknown",
                                  <<Current.start, inst_index, Current.opcode>>)))
        /\ decoder = [offset |-> Current.start + 1, limit |-> None]
        /\ frame = NoFrame
        /\ DeliveredAre(SubSeq(Records, 1, inst_index - 1))

\* OpcodeUnknown was returned for the third record
C11_Witness ==
    /\ HasReturned("OpcodeUnknown")
    /\ Len(Records) >= 3
    /\ returned[1].val.payload = <<Records[3].start, 3, 65535>>
    /\ Records[3].start > Records[2].start + 1
    /\ Len(Delivered) = 2

\* The record the parser is at is known to the table and lies within the
\* buffer with all the words it declares.
AtWholeRecord ==
    /\ AtRecord
    /\ Current.wc > 0
    /\ Current.opcode \in Opcodes
    /\ Current.start + Current.wc <= Len(binary)

\* The words the logical operand l takes when decoded at word position p.
Width(l, p) ==
    IF p >= Len(binary)
    THEN 1
    ELSE IF l.kind = "Decoration" /\ binary[p + 1] \in DecorationWithLiteral
    THEN 2
    ELSE IF l.kind = "MemoryAccess" /\ binary[p + 1] <= MemoryAccessAll
            /\ HasBit(binary[p + 1], MemoryAccessAligned)
    THEN 2
    ELSE 1

\* The words the first k logical operands take from word position p on.
RECURSIVE PrefixNeed(_, _, _)
PrefixNeed(ops, k, p) ==
    IF k = 0
    THEN 0
    ELSE LET sofar == PrefixNeed(ops, k - 1, p)
         IN  sofar + Width(ops[k], p + sofar)

\* The number of exactly-one operands a grammar begins with.
Ones(ops) ==
    Cardinality({i \in 1..Len(ops) : \A j \in 1..i : ops[j].quantifier = "One"})

\* The word at position p is one the operand decoder accepts for l.
Accepted(l, p) ==
    CASE l.kind = "Capability" -> binary[p + 1] <= CapabilityLast
      [] l.kind = "StorageClass" -> binary[p + 1] <= StorageClassLast
      [] l.kind = "Decoration" -> binary[p + 1] <= DecorationLast
      [] l.kind = "MemoryAccess" -> binary[p + 1] <= MemoryAccessAll
      [] OTHER -> TRUE

\* The current record declares fewer operand words than the exactly-one
\* operands its grammar begins with need.
TooFewWords ==
    LET ops == GrammarOperands(Current.opcode)
    IN  Current.wc - 1 < PrefixNeed(ops, Ones(ops), Current.start + 1)

\* The window of the current record ends where one of its exactly-one
\* operands would begin.
EndsBetweenOperands ==
    LET ops == GrammarOperands(Current.opcode)
    IN  \E k \in 0..(Ones(ops) - 1) :
            PrefixNeed(ops, k, Current.start + 1) = Current.wc - 1

NotDelivered(rec) == \A i \in 1..Len(Delivered) : Delivered[i].start # rec.start

\* The exactly-one operands of the current record that begin inside its
\* window, after operands the decoder accepts, with a word the decoder
\* rejects.
Rejected ==
    LET ops == GrammarOperands(Current.opcode)
        p == Current.start + 1
    IN  {k \in 1..Ones(ops) :
            /\ PrefixNeed(ops, k - 1, p) < Current.wc - 1
            /\ ~Accepted(ops[k], p + PrefixNeed(ops, k - 1, p))
            /\ \A j \in 1..(k - 1) : Accepted(ops[j], p + PrefixNeed(ops, j - 1, p))}

\* The position of the word the decoder rejects.
RejectedWord ==
    LET ops == GrammarOperands(Current.opcode)
        k == CHOOSE k \in Rejected : TRUE
    IN  Current.start + 1 + PrefixNeed(ops, k - 1, Current.start + 1)

\* C12 as stated: a record, whole in the buffer, that declares fewer operand
\* words than its exactly-one operands need makes parse return
\* OperandExpected with the record's index.
C12_TooFewIsExpected ==
    (AtWholeRecord /\ TooFewWords /\ pc = "done") =>
        /\ HasReturned("OperandExpected")
        /\ returned[1].val.payload[2] = inst_index

\* C12: a record, whole in the buffer, that declares fewer operand words than
\* the exactly-one operands its grammar begins with need is never delivered.
\* When the decoder accepts every operand the record holds and the window
\* ends where an exactly-one operand would begin, parse returns
\* OperandExpected with the offset of the record's last word and the
\* record's index; when the window ends inside an operand that takes several
\* words, parse returns OperandError with the decoder's LimitReached.  When
\* the decoder rejects a word of the record, parse returns OperandError with
\* the decoder's cause if that word is the last of the window, and
\* OperandExceeded with the offset after that word if words of the window
\* come after it.
C12_OperandExpected ==
    (AtWholeRecord /\ TooFewWords) =>
        /\ NotDelivered(Current)
        /\ pc \in {"parse_operands", "parse_inst_end", "done"}
        /\ pc = "done" =>
              IF Rejected # {}
              THEN IF RejectedWord + 1 = Current.start + Current.wc
                   THEN /\ HasReturned("OperandError")
                        /\ returned[1].val.payload[1].payload =
                              <<RejectedWord, binary[RejectedWord + 1]>>
                        /\ returned[1].val.payload[1].error
                              \notin {"LimitReached", "StreamExpected"}
                   ELSE returned = Some(Err(St("OperandExceeded",
                            <<RejectedWord + 1, inst_index>>)))
              ELSE IF EndsBetweenOperands
              THEN returned = Some(Err(St("OperandExpected",
                       <<Current.start + Current.wc - 1, inst_index>>)))
              ELSE returned = Some(Err(St("OperandError",
                       <<DecodeError("LimitReached",
                                     <<Current.start + Current.wc>>)>>)))

\* OperandExpected for a second record, an OpTypePointer that holds its
\* result id and its storage class and lacks its type
C12_Witness ==
    /\ HasReturned("OperandExpected")
    /\ inst_index = 2
    /\ AtWholeRecord /\ TooFewWords
    /\ Current.opcode = OpTypePointer /\ Current.wc = 3
    /\ Rejected = {}
    /\ Len(Delivered) = 1

\* Every logical operand of ops, decoded one after the other from word
\* position p on, finds its words in the buffer and accepts them.
AllSatisfied(ops, p) ==
    \A k \in 1..Len(ops) :
        LET q == p + PrefixNeed(ops, k - 1, p)
        IN  /\ q + Width(ops[k], q) <= Len(binary)
            /\ Accepted(ops[k], q)

NoZeroOrMore(ops) == \A k \in 1..Len(ops) : ops[k].quantifier # "ZeroOrMore"

\* The current record declares more operand words than the operands of its
\* grammar, all of them decoded, take.
TooManyWords ==
    LET ops == GrammarOperands(Current.opcode)
        p == Current.start + 1
    IN  /\ NoZeroOrMore(ops)
        /\ AllSatisfied(ops, p)
        /\ PrefixNeed(ops, Len(ops), p) < Current.wc - 1

\* C13: a record of a grammar without a zero-or-more operand that declares
\* more operand words than its operands, all decoded, have taken makes parse
\* return OperandExceeded with the offset of the first word left over and
\* the record's 1-based index; the record is not delivered.
C13_OperandExceeded ==
    (AtRecord /\ Current.wc > 0 /\ Current.opcode \in Opcodes /\ TooManyWords) =>
        /\ NotDelivered(Current)
        /\ pc \in {"parse_operands", "parse_inst_end", "done"}
        /\ pc = "done" =>
              returned = Some(Err(St("OperandExceeded",
                  <<Current.start + 1
                      + PrefixNeed(GrammarOperands(Current.opcode),
                                   Len(GrammarOperands(Current.opcode)),
                                   Current.start + 1),
                    inst_index>>)))

\* OperandExceeded for an OpDecorate with one word too many
C13_Witness ==
    /\ HasReturned("OperandExceeded")
    /\ AtWholeRecord /\ TooManyWords
    /\ Current.opcode = OpDecorate /\ Current.wc = 4
    /\ returned[1].val.payload = <<Current.start + 3, inst_index>>
    /\ frame.result # None /\ frame.result[1].ok
    /\ Len(frame.coperands) = 2

\* The grammar of the current record ends in a zero-or-more operand and the
\* record holds the operands before it.
Variadic ==
    LET ops == GrammarOperands(Current.opcode)
    IN  /\ Len(ops) > 0
        /\ ops[Len(ops)].quantifier = "ZeroOrMore"
        /\ Ones(ops) = Len(ops) - 1
        /\ PrefixNeed(ops, Len(ops) - 1, Current.start + 1) <= Current.wc - 1

\* The words of the current record after the operands that come before the
\* zero-or-more one.
Trailing ==
    LET ops == GrammarOperands(Current.opcode)
    IN  Current.wc - 1 - PrefixNeed(ops, Len(ops) - 1, Current.start + 1)

\* The words one repetition of the zero-or-more operand takes.
Repetition ==
    LET ops == GrammarOperands(Current.opcode)
    IN  IF ops[Len(ops)].kind = "PairIdRefLiteralInteger" THEN 2 ELSE 1

\* The current record was delivered, once, as one instruction made of all
\* its operand words in stream order, the trailing ones as the repetitions
\* of the zero-or-more operand.
DeliveredWhole ==
    /\ Cardinality({i \in 1..Len(Delivered) :
                       Delivered[i].start = Current.start}) = 1
    /\ Len(Delivered) = inst_index
    /\ LET c == Delivered[inst_index]
       IN  /\ c.start = Current.start
           /\ c.arg.opcode = Current.opcode
           /\ WordsOf(c.arg) =
                 SubSeq(binary, Current.start + 2, Current.start + Current.wc)
           /\ Len(c.arg.operands) >= Trailing

C15_CompleteInternal ==
    /\ [](returned # None /\ ~returned[1].ok => returned[1].val.state # "Complete")
    /\ [](pc = "finalize" =>
            /\ returned = None
            /\ decoder = [offset |-> Len(binary), limit |-> None]
            /\ frame = NoFrame
            /\ \A i \in 1..Len(calls) : calls[i].cb # "finalize")
    /\ [][/\ (pc = "parse_inst") =>
                ((pc' = "finalize") = (decoder.offset >= Len(binary)))
          /\ (pc' = "finalize") =>
                (pc = "parse_inst" /\ calls' = calls /\ returned' = None)
          /\ (pc = "finalize") =>
                (/\ Len(calls') = Len(calls) + 1
                 /\ calls'[Len(calls')].cb = "finalize"
                 /\ pc' = "done")]_vars

\* The loop has ended after two delivered records and finalize is due
C15_Witness ==
    /\ pc = "finalize"
    /\ Len(Delivered) = 2
    /\ inst_index = 3
    /\ decoder.offset = Len(binary)

\* The record the parser is at is known to the table and the buffer ends
\* before the last of the words it declares.
AtTruncatedRecord ==
    /\ AtRecord
    /\ Current.wc > 0
    /\ Current.opcode \in Opcodes
    /\ Current.start + Current.wc > Len(binary)

\* C16: when the buffer ends before all the operand words its last record
\* declares, parse returns InstructionIncomplete or OperandError with the
\* cursor's StreamExpected, and the record is not delivered.
C16_TruncatedIsExhaustion ==
    AtTruncatedRecord =>
        /\ NotDelivered(Current)
        /\ pc = "done" =>
              \/ HasReturned("InstructionIncomplete")
              \/ /\ HasReturned("OperandError")
                 /\ returned[1].val.payload[1].error = "StreamExpected"

IndexedStates ==
    {"WordCountZero", "OpcodeUnknown", "OperandExpected", "OperandExceeded"}

\* C17: the index carried by WordCountZero, OpcodeUnknown, OperandExpected
\* and OperandExceeded is the number of consume_instruction calls made plus
\* one: it is at least 1, the records before it were delivered, every one of
\* them with Continue returned, and the record it numbers was not.
C17_IndexIsFirstUndelivered ==
    (returned # None /\ ~returned[1].ok
        /\ returned[1].val.state \in IndexedStates) =>
        LET index == returned[1].val.payload[2]
        IN  /\ index = Len(Delivered) + 1
            /\ index >= 1
            /\ index = inst_index
            /\ index <= Len(Records)
            /\ DeliveredAre(SubSeq(Records, 1, index - 1))
            /\ NotDelivered(Records[index])
            /\ \A i \in 1..Len(calls) : Continued(i)

\* OperandExpected with index 3 after two delivered records
C17_Witness ==
    /\ HasReturned("OperandExpected")
    /\ returned[1].val.payload[2] = 3
    /\ Len(Delivered) = 2

\* The current record holds the exactly-one operands its grammar begins
\* with, all accepted, and no word more, and the grammar goes on with an
\* operand that is zero-or-one or zero-or-more.
EndsBeforeOptional ==
    LET ops == GrammarOperands(Current.opcode)
        p == Current.start + 1
    IN  /\ Ones(ops) < Len(ops)
        /\ PrefixNeed(ops, Ones(ops), p) = Current.wc - 1
        /\ AllSatisfied(SubSeq(ops, 1, Ones(ops)), p)

\* The operands of kind `kind` among the concrete operands.
OfKind(coperands, kind) ==
    {k \in 1..Len(coperands) : coperands[k].kind = kind}

\* The grammar of the current record has an exactly-one operand after its
\* first operand that is not exactly-one.
LaterOne ==
    LET ops == GrammarOperands(Current.opcode)
    IN  \E j \in (Ones(ops) + 2)..Len(ops) : ops[j].quantifier = "One"

\* The current record holds the exactly-one operands its grammar begins
\* with, all accepted, and the grammar goes on with a zero-or-more id that
\* takes the words after them, if any.
EndsInMembers ==
    LET ops == GrammarOperands(Current.opcode)
        p == Current.start + 1
    IN  /\ Ones(ops) < Len(ops)
        /\ ops[Ones(ops) + 1] = LOperand("IdRef", "ZeroOrMore")
        /\ PrefixNeed(ops, Ones(ops), p) <= Current.wc - 1
        /\ AllSatisfied(SubSeq(ops, 1, Ones(ops)), p)

\* C18: when the window is empty and the pending logical operand is
\* zero-or-one or zero-or-more, the walk ends at once with the instruction
\* assembled from what was decoded, whatever operands the grammar has after
\* it; a record whose window is empty when such an operand is pending is
\* delivered and never yields OperandExpected, also when an exactly-one
\* operand comes later in its grammar; an exactly-one operand after a
\* zero-or-one operand that was decoded is required; a zero-or-one operand
\* is decoded at most once, so that words after it are left in the window.
C18_OptionalMayBeAbsent ==
    /\ [][(/\ pc = "parse_operands"
            /\ limit_reached(decoder)
            /\ frame.loperand_index < Len(frame.grammar[1].operands)
            /\ frame.grammar[1].operands[frame.loperand_index + 1].quantifier
                  # "One") =>
              (/\ pc' = "parse_inst_end"
               /\ decoder' = decoder
               /\ frame'.result =
                     Some(Ok(Instruction(frame.grammar[1], frame.rtype,
                                         frame.rid, frame.coperands))))]_vars
    /\ []((AtWholeRecord /\ (EndsBeforeOptional \/ EndsInMembers)) =>
            /\ ~HasReturned("OperandExpected")
            /\ ~HasReturned("OperandExceeded")
            /\ ~HasReturned("OperandError")
            /\ pc \in {"parse_operands", "parse_inst_end",
                      "consume_instruction", "parse_inst", "done"}
            /\ pc \in {"parse_inst", "done"} =>
                  /\ DeliveredWhole
                  /\ Len(WordsOf(Delivered[inst_index].arg)) = Current.wc - 1)
    /\ []((/\ AtWholeRecord /\ Current.opcode = OpOptionalThenOne
            /\ Current.wc = 2 /\ pc = "done") =>
              returned = Some(Err(St("OperandExpected",
                                     <<Current.start + 1, inst_index>>))))
    /\ [](/\ Cardinality(OfKind(frame.coperands, "MemoryAccess")) <= 1
          /\ \A i \in 1..Len(Delivered) :
                Cardinality(OfKind(Delivered[i].arg.operands, "MemoryAccess")) <= 1
          /\ (/\ AtRecord /\ Current.wc > 0 /\ Current.opcode = OpStore
               /\ TooManyWords /\ pc = "done") =>
                 /\ HasReturned("OperandExceeded")
                 /\ Cardinality(OfKind(frame.coperands, "MemoryAccess")) = 1)

\* After an OpStore without memory access, a record of a grammar with an
\* exactly-one operand after a zero-or-one operand was delivered without
\* operands
C18_Witness ==
    /\ pc = "done"
    /\ inst_index = 2
    /\ AtWholeRecord /\ EndsBeforeOptional /\ LaterOne /\ DeliveredWhole
    /\ Current.opcode = OpOptionalThenOne /\ Current.wc = 1
    /\ Delivered[2].arg.operands = << >>
    /\ Delivered[1].arg.opcode = OpStore
    /\ OfKind(Delivered[1].arg.operands, "MemoryAccess") = {}

\* C19: parse returns for every buffer.  Every turn of the instruction loop
\* reads one word or leaves the loop; every turn of the walk over the
\* operands moves on to the next logical operand, takes at least one word
\* off the window, or leaves the walk.
C19_Terminates ==
    /\ <>(pc = "done" /\ returned # None)
    /\ [][/\ (pc = "parse_inst") =>
                (\/ decoder'.offset = decoder.offset + 1
                 \/ pc' \in {"finalize", "done"})
          /\ (pc = "parse_operands") =>
                (\/ frame'.loperand_index = frame.loperand_index + 1
                 \/ (has_limit(decoder') /\ decoder'.limit[1] < decoder.limit[1])
                 \/ pc' = "parse_inst_end")
          /\ decoder'.offset >= decoder.offset
          /\ decoder'.offset <= Len(binary)]_vars

\* parse has returned after an OpTypeStruct whose member list took two turns
\* of the walk
C19_Witness ==
    /\ pc = "done"
    /\ Len(Delivered) >= 1
    /\ \E i \in 1..Len(Delivered) :
          /\ Delivered[i].arg.opcode = OpTypeStruct
          /\ Len(Delivered[i].arg.operands) = 2

\* C20: no window is set on the cursor when the first word of a record is
\* about to be read and when a callback is made; a window is set only
\* between the first word of a record of a known opcode and the end of
\* parse_inst for that record, and it never holds more than the operand
\* words the record declares.
C20_NoWindowOutsideRecord ==
    /\ pc \in {"initialize", "parse_header", "consume_header", "parse_inst",
              "consume_instruction", "finalize"} => ~has_limit(decoder)
    /\ \A i \in 1..Len(calls) : calls[i].limit = None
    /\ pc \in {"parse_operands", "parse_inst_end"} =>
          /\ has_limit(decoder)
          /\ decoder.limit[1] <= frame.wc - 1
    /\ ReturnedOk => ~has_limit(decoder)

\* Two records with operands were delivered one after the other and the
\* cursor is ready for a third
C20_Witness ==
    /\ pc = "parse_inst"
    /\ Len(Delivered) = 2
    /\ Delivered[1].wc >= 2 /\ Delivered[2].wc >= 2
    /\ Delivered[1].limit = None /\ Delivered[2].limit = None
    /\ ~has_limit(decoder)

====
